---- MODULE Spec2Model ----
(***************************************************************************)
(* A model of src/src/ru.rs: the reduction of decoded IPA sounds to the    *)
(* internal phoneme inventory (PhonemeSeq::new) and the context-sensitive  *)
(* rendering of a phoneme sequence as Cyrillic text (Display for           *)
(* PhonemeSeq).                                                            *)
(*                                                                         *)
(* Text is modelled as a sequence of letters.  The module's strings are    *)
(* ASCII, so each Cyrillic letter is written by its transliterated name:   *)
(*   "a" а   "e" э   "y" ы   "o" о   "u" у                                 *)
(*   "ya" я  "ye" е  "i" и   "yo" ё  "yu" ю                                *)
(*   "p" п   "b" б   "f" ф   "v" в   "k" к   "g" г   "t" т   "d" д         *)
(*   "shch" щ  "sh" ш  "zh" ж  "s" с  "z" з  "l" л  "m" м  "n" н           *)
(*   "r" р   "kh" х  "ch" ч  "j" й   "soft" ь  "hard" ъ  " " space         *)
(* so that the two-letter string "пь" is <<"p", "soft">> and the empty     *)
(* string is << >>.                                                        *)
(***************************************************************************)
EXTENDS Integers, Sequences, FiniteSets

\* Longest phoneme sequence handed directly to the renderer, besides the
\* sequences of the unit tests.
MaxLen == 2

\* Longest sequence of sound descriptors handed to the reducer, besides the
\* inputs of the integration tests.
MaxIpaLen == 2

---------------------------------------------------------------------------
(* The data model *)

\* enum Vowels
Vowels == {"A", "E", "I", "O", "U"}

\* enum Consonants
Consonants == {"P", "B", "F", "V", "K", "G", "T", "D", "W",
               "X", "S", "Z", "L", "M", "N", "R", "H", "C"}

\* enum PalatalizedOnlyConsonants
PalatalizedOnlyConsonants == {"J", "Q"}

Vowel(v) == [kind |-> "Vowel", phoneme |-> v]

Consonant(c, pal) == [kind |-> "Consonant", phoneme |-> c, is_palatalized |-> pal]

PalatalizedOnlyConsonant(c) == [kind |-> "PalatalizedOnlyConsonant", phoneme |-> c]

Probel == [kind |-> "Probel"]

\* enum Phoneme
Phoneme ==
  {Vowel(v) : v \in Vowels}
    \cup {Consonant(c, pal) : c \in Consonants, pal \in BOOLEAN}
    \cup {PalatalizedOnlyConsonant(c) : c \in PalatalizedOnlyConsonants}
    \cup {Probel}

\* The variants of ipa_sounds::Vowels that vowels_lookup matches on.
IpaVowels ==
  {"CloseBackRounded", "CloseBackUnrounded", "CloseCentralRounded",
   "CloseCentralUnrounded", "CloseFrontRounded", "CloseFrontUnrounded",
   "CloseMidBackRounded", "CloseMidBackUnrounded", "CloseMidCentralRounded",
   "CloseMidCentralUnrounded", "CloseMidFrontRounded", "CloseMidFrontUnrounded",
   "MidCentral", "NearCloseNearBackRounded", "NearCloseNearFrontRounded",
   "NearCloseNearFrontUnrounded", "NearOpenFrontUrounded", "OpenBackUnrounded",
   "OpenFrontUnrounded", "OpenMidBackUnrounded"}

\* The variants of ipa_sounds::Consonants that consonants_lookup matches on.
IpaConsonants ==
  {"VoicedAlveolarNasal", "VoicedBilabialNasal", "VoicedPalatalApproximant",
   "VoicelessBilabialPlosive"}

IpaVowelSound(q, l) == [kind |-> "Vowel", phoneme |-> q, is_long |-> l]

IpaConsonantSound(q, l, p) ==
  [kind |-> "Consonant", phoneme |-> q, is_long |-> l, is_palatalized |-> p]

IpaSpace == [kind |-> "Space"]

\* The variants of ipa_sounds::Sound that PhonemeSeq::new matches on.
Sound ==
  {IpaVowelSound(q, l) : q \in IpaVowels, l \in BOOLEAN}
    \cup {IpaConsonantSound(q, l, p) :
            q \in IpaConsonants, l \in BOOLEAN, p \in BOOLEAN}
    \cup {IpaSpace}

---------------------------------------------------------------------------
(* The reducer *)

vowels_lookup(vowel) ==
  CASE vowel = "CloseBackRounded"            -> "U"
    [] vowel = "CloseBackUnrounded"          -> "U"
    [] vowel = "CloseCentralRounded"         -> "U"
    [] vowel = "CloseCentralUnrounded"       -> "I"
    [] vowel = "CloseFrontRounded"           -> "U"
    [] vowel = "CloseFrontUnrounded"         -> "I"
    [] vowel = "CloseMidBackRounded"         -> "O"
    [] vowel = "CloseMidBackUnrounded"       -> "U"
    [] vowel = "CloseMidCentralRounded"      -> "U"
    [] vowel = "CloseMidCentralUnrounded"    -> "E"
    [] vowel = "CloseMidFrontRounded"        -> "O"
    [] vowel = "CloseMidFrontUnrounded"      -> "E"
    [] vowel = "MidCentral"                  -> "A"
    [] vowel = "NearCloseNearBackRounded"    -> "U"
    [] vowel = "NearCloseNearFrontRounded"   -> "U"
    [] vowel = "NearCloseNearFrontUnrounded" -> "E"
    [] vowel = "NearOpenFrontUrounded"       -> "A"
    [] vowel = "OpenBackUnrounded"           -> "A"
    [] vowel = "OpenFrontUnrounded"          -> "A"
    [] vowel = "OpenMidBackUnrounded"        -> "A"

\* Mutant of consonants_lookup: the palatalization flag is not passed on.
consonants_lookup_DropsFlag(consonant, is_palatalized) ==
  CASE consonant = "VoicedAlveolarNasal"      -> Consonant("N", FALSE)
    [] consonant = "VoicedBilabialNasal"      -> Consonant("M", FALSE)
    [] consonant = "VoicedPalatalApproximant" -> PalatalizedOnlyConsonant("J")
    [] consonant = "VoicelessBilabialPlosive" -> Consonant("P", FALSE)

consonants_lookup(consonant, is_palatalized) ==
  CASE consonant = "VoicedAlveolarNasal"      -> Consonant("N", is_palatalized)
    [] consonant = "VoicedBilabialNasal"      -> Consonant("M", is_palatalized)
    [] consonant = "VoicedPalatalApproximant" -> PalatalizedOnlyConsonant("J")
    [] consonant = "VoicelessBilabialPlosive" -> Consonant("P", is_palatalized)

\* The (phoneme, is_long) pair the closure of PhonemeSeq::new computes.
SoundPhoneme(sound) ==
  CASE sound.kind = "Vowel" ->
         <<Vowel(vowels_lookup(sound.phoneme)), sound.is_long>>
    [] sound.kind = "Consonant" ->
         <<consonants_lookup(sound.phoneme, sound.is_palatalized), sound.is_long>>
    [] sound.kind = "Space" -> <<Probel, FALSE>>

\* Mutant of TakeCount: the length flag is ignored.
TakeCount_Once(is_long) == 1

\* is_long as usize + 1
TakeCount(is_long) == (IF is_long THEN 1 ELSE 0) + 1

\* iter::repeat(phoneme).take(n)
Repeat(phoneme, n) == [k \in 1..n |-> phoneme]

\* The closure of flat_map: one sound's expansion.
Expand(sound) ==
  LET pl == SoundPhoneme(sound)
  IN  Repeat(pl[1], TakeCount(pl[2]))

\* PhonemeSeq::new: ipa.iter().flat_map(..).collect()
RECURSIVE PhonemeSeqNew(_)
PhonemeSeqNew(ipa) ==
  IF ipa = << >> THEN << >>
  ELSE Expand(Head(ipa)) \o PhonemeSeqNew(Tail(ipa))

---------------------------------------------------------------------------
(* The renderer.  Positions are 0-based as in the source; self.0[j] is     *)
(* s[j + 1].                                                               *)

\* Whether self.0[j] is inside the vector (otherwise the index panics).
InBounds(s, j) == j >= 0 /\ j < Len(s)

At(s, j) == s[j + 1]

\* The index the three "prev" matches read: none when i is 0.
PrevIdx(i) == IF i = 0 THEN {} ELSE {i - 1}

\* Mutant of NextIdx: the lookahead is not guarded at the last position.
NextIdx_Unguarded(s, i) == {i + 1}

\* The index is_vowel_next reads: none when i is len - 1.
NextIdx(s, i) == IF i = Len(s) - 1 THEN {} ELSE {i + 1}

\* Every index of self.0 read while rendering position i.
Reads(s, i) == PrevIdx(i) \cup NextIdx(s, i) \cup {i}

\* Mutant of is_prev_palatalized: a palatalized phoneme anywhere before
\* position i counts.
is_prev_palatalized_Spreads(s, i) ==
  \E j \in 0..(i - 1) :
    LET p == At(s, j)
    IN  \/ p.kind = "PalatalizedOnlyConsonant"
        \/ p.kind = "Consonant" /\ p.is_palatalized

\* Mutant of is_prev_palatalized: the flag of a Consonant is not consulted.
is_prev_palatalized_NoFlag(s, i) ==
  \E j \in PrevIdx(i) : At(s, j).kind = "PalatalizedOnlyConsonant"

is_prev_palatalized(s, i) ==
  \E j \in PrevIdx(i) :
    LET p == At(s, j)
    IN  CASE p.kind = "Vowel" -> FALSE
          [] p.kind = "Consonant" -> p.is_palatalized
          [] p.kind = "PalatalizedOnlyConsonant" -> TRUE
          [] p.kind = "Probel" -> FALSE

\* Mutant of is_vowel_next: whatever is not a consonant counts as a vowel.
is_vowel_next_NotConsonant(s, i) ==
  \E j \in NextIdx(s, i) :
    At(s, j).kind \notin {"Consonant", "PalatalizedOnlyConsonant"}

is_vowel_next(s, i) ==
  \E j \in NextIdx(s, i) :
    LET p == At(s, j)
    IN  CASE p.kind = "Vowel" -> TRUE
          [] p.kind = "Consonant" -> FALSE
          [] p.kind = "PalatalizedOnlyConsonant" -> FALSE
          [] p.kind = "Probel" -> FALSE

\* Mutant of is_consonant_prev: the PalatalizedOnlyConsonant arm is false.
is_consonant_prev_PlainOnly(s, i) ==
  \E j \in PrevIdx(i) : At(s, j).kind = "Consonant"

is_consonant_prev(s, i) ==
  \E j \in PrevIdx(i) :
    LET p == At(s, j)
    IN  CASE p.kind = "Vowel" -> FALSE
          [] p.kind = "Consonant" -> TRUE
          [] p.kind = "PalatalizedOnlyConsonant" -> TRUE
          [] p.kind = "Probel" -> FALSE

is_q_or_wj_prev(s, i) ==
  \E j \in PrevIdx(i) :
    LET p == At(s, j)
    IN  CASE p.kind = "Vowel" -> FALSE
          [] p.kind = "Consonant" ->
               (IF p.phoneme = "W" THEN p.is_palatalized ELSE FALSE)
          [] p.kind = "PalatalizedOnlyConsonant" -> p.phoneme = "Q"
          [] p.kind = "Probel" -> FALSE

\* Mutant of is_vowel_palatalizing: the W/Q exception is dropped.
is_vowel_palatalizing_NoException(s, i) == is_prev_palatalized(s, i)

is_vowel_palatalizing(s, i) ==
  is_prev_palatalized(s, i) /\ ~is_q_or_wj_prev(s, i)

\* The Vowel arm.
VowelGlyph(phoneme, palatalizing) ==
  CASE phoneme = "A" -> IF palatalizing THEN <<"ya">> ELSE <<"a">>
    [] phoneme = "E" -> IF palatalizing THEN <<"ye">> ELSE <<"e">>
    [] phoneme = "I" -> IF palatalizing THEN <<"i">> ELSE <<"y">>
    [] phoneme = "O" -> IF palatalizing THEN <<"yo">> ELSE <<"o">>
    [] phoneme = "U" -> IF palatalizing THEN <<"yu">> ELSE <<"u">>

\* Mutant of is_jer: the following vowel is not consulted.
is_jer_IgnoresNext(s, i, is_palatalized) == is_palatalized

is_jer(s, i, is_palatalized) == is_palatalized /\ ~is_vowel_next(s, i)

\* The Consonant arm.
ConsonantGlyph(phoneme, is_palatalized, jer) ==
  CASE phoneme = "P" -> IF jer THEN <<"p", "soft">> ELSE <<"p">>
    [] phoneme = "B" -> IF jer THEN <<"b", "soft">> ELSE <<"b">>
    [] phoneme = "F" -> IF jer THEN <<"f", "soft">> ELSE <<"f">>
    [] phoneme = "V" -> IF jer THEN <<"v", "soft">> ELSE <<"v">>
    [] phoneme = "K" -> IF jer THEN <<"k", "soft">> ELSE <<"k">>
    [] phoneme = "G" -> IF jer THEN <<"g", "soft">> ELSE <<"g">>
    [] phoneme = "T" -> IF jer THEN <<"t", "soft">> ELSE <<"t">>
    [] phoneme = "D" -> IF jer THEN <<"d", "soft">> ELSE <<"d">>
    [] phoneme = "W" -> IF is_palatalized THEN <<"shch">> ELSE <<"sh">>
    [] phoneme = "X" -> IF jer THEN <<"zh", "soft">> ELSE <<"zh">>
    [] phoneme = "S" -> IF jer THEN <<"s", "soft">> ELSE <<"s">>
    [] phoneme = "Z" -> IF jer THEN <<"z", "soft">> ELSE <<"z">>
    [] phoneme = "L" -> IF jer THEN <<"l", "soft">> ELSE <<"l">>
    [] phoneme = "M" -> IF jer THEN <<"m", "soft">> ELSE <<"m">>
    [] phoneme = "N" -> IF jer THEN <<"n", "soft">> ELSE <<"n">>
    [] phoneme = "R" -> IF jer THEN <<"r", "soft">> ELSE <<"r">>
    [] phoneme = "H" -> IF jer THEN <<"kh", "soft">> ELSE <<"kh">>
    [] phoneme = "C" -> IF jer THEN <<"s", "soft">> ELSE <<"s">>

\* The PalatalizedOnlyConsonant arm.
PalatalizedOnlyGlyph(phoneme, vowel_next, consonant_prev) ==
  CASE phoneme = "J" ->
         IF vowel_next /\ consonant_prev THEN <<"hard">>
         ELSE IF ~vowel_next THEN <<"j">>
         ELSE << >>
    [] phoneme = "Q" -> <<"ch">>

\* The text the closure of fmt writes for position i.
RenderAt(s, i) ==
  LET p == At(s, i)
  IN  CASE p.kind = "Vowel" ->
             VowelGlyph(p.phoneme, is_vowel_palatalizing(s, i))
        [] p.kind = "Consonant" ->
             ConsonantGlyph(p.phoneme, p.is_palatalized,
                            is_jer(s, i, p.is_palatalized))
        [] p.kind = "PalatalizedOnlyConsonant" ->
             PalatalizedOnlyGlyph(p.phoneme, is_vowel_next(s, i),
                                  is_consonant_prev(s, i))
        [] p.kind = "Probel" -> <<" ">>

\* What successive write! calls leave in the formatter: the concatenation
\* of the texts written.
RECURSIVE Concat(_)
Concat(texts) ==
  IF texts = << >> THEN << >> ELSE Head(texts) \o Concat(Tail(texts))

\* fmt as a function of the sequence: every position's text, in index order.
Render(s) == Concat([k \in 1..Len(s) |-> RenderAt(s, k - 1)])

---------------------------------------------------------------------------
(* The inputs of the repository's tests *)

\* mod ru_phoneme_seq_fmt_tests: the PhonemeSeq each test formats.
fmt_tests_test_na == <<Consonant("N", TRUE), Vowel("A")>>

fmt_tests_test_jer ==
  <<Consonant("P", FALSE), Vowel("O"), Consonant("D", FALSE),
    PalatalizedOnlyConsonant("J"), Vowel("E"), Consonant("Z", FALSE),
    Consonant("D", FALSE)>>

fmt_tests_test_huj ==
  <<Consonant("H", FALSE), Vowel("U"), PalatalizedOnlyConsonant("J")>>

fmt_tests_test_intervokalnij_jot ==
  <<Vowel("A"), Consonant("H", FALSE), Vowel("U"),
    PalatalizedOnlyConsonant("J"), Vowel("E"), Consonant("T", TRUE)>>

fmt_tests_test_naqalnij_jot ==
  <<PalatalizedOnlyConsonant("J"), Vowel("E"), Consonant("B", FALSE),
    Vowel("A"), Consonant("T", TRUE)>>

fmt_tests_test_wuwa ==
  <<Consonant("W", TRUE), Vowel("U"), Consonant("W", FALSE), Vowel("A")>>

fmt_tests_test_qakra ==
  <<PalatalizedOnlyConsonant("Q"), Vowel("A"), Consonant("K", FALSE),
    Consonant("R", FALSE), Vowel("A")>>

FmtTestSeqs ==
  {fmt_tests_test_na, fmt_tests_test_jer, fmt_tests_test_huj,
   fmt_tests_test_intervokalnij_jot, fmt_tests_test_naqalnij_jot,
   fmt_tests_test_wuwa, fmt_tests_test_qakra}

\* mod ru_integration_tests: the sounds each test's IPA text stands for
\* (n: voiced alveolar nasal, m: voiced bilabial nasal, ae: near-open front
\* unrounded, u: close back rounded; the j superscript palatalizes and the
\* length mark lengthens the sound before it).
integration_tests_test_na ==
  <<IpaConsonantSound("VoicedAlveolarNasal", FALSE, TRUE),
    IpaVowelSound("NearOpenFrontUrounded", FALSE)>>

integration_tests_test_na_nan ==
  <<IpaConsonantSound("VoicedAlveolarNasal", FALSE, TRUE),
    IpaVowelSound("NearOpenFrontUrounded", FALSE),
    IpaSpace,
    IpaConsonantSound("VoicedAlveolarNasal", FALSE, TRUE),
    IpaVowelSound("NearOpenFrontUrounded", FALSE),
    IpaConsonantSound("VoicedAlveolarNasal", FALSE, FALSE)>>

integration_tests_test_maau ==
  <<IpaConsonantSound("VoicedBilabialNasal", FALSE, TRUE),
    IpaVowelSound("NearOpenFrontUrounded", TRUE),
    IpaVowelSound("CloseBackRounded", FALSE)>>

integration_tests_test_mmaau ==
  <<IpaConsonantSound("VoicedBilabialNasal", TRUE, TRUE),
    IpaVowelSound("NearOpenFrontUrounded", TRUE),
    IpaVowelSound("CloseBackRounded", FALSE)>>

IntegrationTestIpas ==
  {integration_tests_test_na, integration_tests_test_na_nan,
   integration_tests_test_maau, integration_tests_test_mmaau}

---------------------------------------------------------------------------
(* The state machine *)

VARIABLES
  ipa,    \* the sounds handed to Ru::from (<< >> when the sequence is built directly)
  seq,    \* self.0 of the PhonemeSeq
  pc,     \* "from": before PhonemeSeq::new; "fmt": in the loop of fmt;
          \* "done": fmt returned Ok; "panicked": an index was out of bounds
  i,      \* the loop index of fmt
  out,    \* the text written to the formatter so far
  chunks, \* history: the text each finished iteration wrote, in order
  reads   \* history: the indices of self.0 read by the latest iteration

vars == <<ipa, seq, pc, i, out, chunks, reads>>

\* A PhonemeSeq built from its variants (as the unit tests do), about to be
\* formatted: any sequence of at most MaxLen phonemes, or a unit test's.
InitDirect ==
  /\ ipa = << >>
  /\ \/ \E m \in 0..MaxLen : seq \in [1..m -> Phoneme]
     \/ seq \in FmtTestSeqs
  /\ pc = "fmt"

\* A non-empty Ipa value handed to Ru::from (the empty one yields the empty
\* PhonemeSeq, which InitDirect covers): any sequence of at most MaxIpaLen
\* sounds, or an integration test's.
InitIpa ==
  /\ \/ \E m \in 1..MaxIpaLen : ipa \in [1..m -> Sound]
     \/ ipa \in IntegrationTestIpas
  /\ seq = << >>
  /\ pc = "from"

Init ==
  /\ (InitDirect \/ InitIpa)
  /\ i = 0
  /\ out = << >>
  /\ chunks = << >>
  /\ reads = {}

\* Ru::from: Self(PhonemeSeq::new(ipa)); the value is then formatted.
From ==
  /\ pc = "from"
  /\ seq' = PhonemeSeqNew(ipa)
  /\ pc' = "fmt"
  /\ UNCHANGED <<ipa, i, out, chunks, reads>>

\* Whether an iteration on s panics: self.0.len() - 1 underflows, or one of
\* the indices it reads is outside the vector.
Panics(s, k) ==
  \/ Len(s) - 1 < 0
  \/ \E j \in Reads(s, k) : ~InBounds(s, j)

\* One iteration of (0..self.0.len()).try_for_each(..).  The formatter is
\* taken to accept every write (writing into a String cannot fail), so the
\* iteration ends the loop early only by panicking.
FmtStep ==
  /\ pc = "fmt"
  /\ i < Len(seq)
  /\ reads' = Reads(seq, i)
  /\ IF Panics(seq, i)
       THEN /\ pc' = "panicked"
            /\ UNCHANGED <<i, out, chunks>>
       ELSE /\ chunks' = Append(chunks, RenderAt(seq, i))
            /\ out' = out \o RenderAt(seq, i)
            /\ i' = i + 1
            /\ pc' = "fmt"
  /\ UNCHANGED <<ipa, seq>>

\* The range is exhausted: fmt returns Ok(()).
FmtDone ==
  /\ pc = "fmt"
  /\ i = Len(seq)
  /\ pc' = "done"
  /\ UNCHANGED <<ipa, seq, i, out, chunks, reads>>

Next == From \/ FmtStep \/ FmtDone

Spec == Init /\ [][Next]_vars

\* The renderer alone: a PhonemeSeq built from its variants is formatted.
InitRender ==
  /\ InitDirect
  /\ i = 0
  /\ out = << >>
  /\ chunks = << >>
  /\ reads = {}

NextRender == FmtStep \/ FmtDone

SpecRender == InitRender /\ [][NextRender]_vars

---------------------------------------------------------------------------
(* The glyph tables of the rendering rules, as the specification words     *)
(* them (iotated/plain vowel pairs, hard consonant glyphs).                *)

IotatedGlyph(v) ==
  CASE v = "A" -> "ya" [] v = "E" -> "ye" [] v = "I" -> "i"
    [] v = "O" -> "yo" [] v = "U" -> "yu"

PlainGlyph(v) ==
  CASE v = "A" -> "a" [] v = "E" -> "e" [] v = "I" -> "y"
    [] v = "O" -> "o" [] v = "U" -> "u"

HardGlyph(c) ==
  CASE c = "P" -> "p" [] c = "B" -> "b" [] c = "F" -> "f" [] c = "V" -> "v"
    [] c = "K" -> "k" [] c = "G" -> "g" [] c = "T" -> "t" [] c = "D" -> "d"
    [] c = "X" -> "zh" [] c = "S" -> "s" [] c = "Z" -> "z" [] c = "L" -> "l"
    [] c = "M" -> "m" [] c = "N" -> "n" [] c = "R" -> "r" [] c = "H" -> "kh"
    [] c = "C" -> "s"

\* Position n (1-based) of seq has just been rendered: chunks[n] is its text.
JustRendered(n) == pc = "fmt" /\ i = n /\ n > 0

IsPalatalizedConsonantNotW(p) ==
  p.kind = "Consonant" /\ p.is_palatalized /\ p.phoneme # "W"

IsJ(p) == p.kind = "PalatalizedOnlyConsonant" /\ p.phoneme = "J"

IsAnyConsonant(p) == p.kind \in {"Consonant", "PalatalizedOnlyConsonant"}

---------------------------------------------------------------------------
(* C1.  A Vowel is written with its iotated glyph exactly when the         *)
(* previous position exists and holds a palatalized Consonant other than W *)
(* or the Palatalized-Only Consonant J; in every other case (first         *)
(* position, or after a Vowel, a Separator, a non-palatalized Consonant, a *)
(* palatalized W, or Q) it is written with its plain glyph.                *)
C1_VowelIotation ==
  \A n \in 1..Len(seq) :
    (JustRendered(n) /\ seq[n].kind = "Vowel") =>
      LET softPrev == n > 1 /\ (IsPalatalizedConsonantNotW(seq[n - 1])
                                  \/ IsJ(seq[n - 1]))
      IN  chunks[n] = IF softPrev THEN <<IotatedGlyph(seq[n].phoneme)>>
                      ELSE <<PlainGlyph(seq[n].phoneme)>>

\* test_na: a palatalized N followed by A gives the iotated "ya".
C1_Witness ==
  /\ JustRendered(2)
  /\ seq[1] = Consonant("N", TRUE)
  /\ seq[2] = Vowel("A")
  /\ chunks[2] = <<"ya">>

C3_ConsonantSpelling ==
  \A n \in 1..Len(seq) :
    (JustRendered(n) /\ seq[n].kind = "Consonant") =>
      LET c == seq[n].phoneme
          pal == seq[n].is_palatalized
          nextVowel == n < Len(seq) /\ seq[n + 1].kind = "Vowel"
      IN  /\ c = "W" => chunks[n] = IF pal THEN <<"shch">> ELSE <<"sh">>
          /\ c # "W" => chunks[n] = IF pal /\ ~nextVowel
                                      THEN <<HardGlyph(c), "soft">>
                                      ELSE <<HardGlyph(c)>>
          /\ c = "C" => chunks[n] =
                          RenderAt([seq EXCEPT ![n] = Consonant("S", pal)], n - 1)

\* A palatalized T in final position is written with the soft sign.
C3_Witness ==
  /\ JustRendered(2)
  /\ Len(seq) = 2
  /\ seq[1] = Vowel("A")
  /\ seq[2] = Consonant("T", TRUE)
  /\ chunks[2] = <<"t", "soft">>

\* Descriptor k of ipa is a long vowel or consonant.
C4_IsLong(k) == ipa[k].kind # "Space" /\ ipa[k].is_long

\* The number of phonemes the descriptors before k expand to.
C4_Offset(k) == (k - 1) + Cardinality({m \in 1..(k - 1) : C4_IsLong(m)})

(* C4.  The reducer's output is the in-order concatenation of the          *)
(* per-descriptor expansions: a long vowel or consonant descriptor gives   *)
(* two identical adjacent phonemes, a non-long one gives one, a separator  *)
(* gives exactly one Separator; so the output length is the number of      *)
(* descriptors plus the number of long non-separator descriptors.          *)
C4_LengthExpansion ==
  (ipa # << >> /\ pc # "from") =>
    /\ Len(seq) = Len(ipa) + Cardinality({k \in DOMAIN ipa : C4_IsLong(k)})
    /\ \A k \in DOMAIN ipa :
         LET first == C4_Offset(k) + 1
         IN  /\ ipa[k].kind = "Space" => seq[first] = Probel
             /\ ipa[k].kind # "Space" => seq[first] = SoundPhoneme(ipa[k])[1]
             /\ C4_IsLong(k) => seq[first + 1] = seq[first]

\* A long descriptor followed by a separator: three phonemes.
C4_Witness ==
  /\ pc = "fmt"
  /\ Len(ipa) = 2
  /\ C4_IsLong(1)
  /\ ipa[2].kind = "Space"
  /\ seq[1] = seq[2]
  /\ seq[3] = Probel

(* C5.  Rendering is context-local: replacing the phoneme at one position  *)
(* k by any other leaves the text of every position j with |j - k| > 1     *)
(* unchanged; and the full text is the concatenation of the per-position   *)
(* texts in index order.                                                   *)
C5_ContextLocal ==
  /\ \A n \in 1..Len(seq) :
       JustRendered(n) =>
         \A k \in 1..Len(seq) :
           (k > n + 1 \/ n > k + 1) =>
             \A p \in Phoneme :
               RenderAt([seq EXCEPT ![k] = p], n - 1) = chunks[n]
  /\ out = Concat(chunks)
  /\ pc = "done" => Len(chunks) = Len(seq)

\* test_intervokalnij_jot: E after J is iotated, with three positions
\* before J and one after E outside its window.
C5_Witness ==
  /\ JustRendered(5)
  /\ seq = fmt_tests_test_intervokalnij_jot
  /\ chunks[5] = <<"ye">>
  /\ out = <<"a", "kh", "u", "ye">>

(* C6.  The renderer is total: it never panics, every iteration reads only *)
(* the indices i-1, i, i+1 that lie inside 0..len-1, and from every state  *)
(* that is not finished a step is possible, the loop index never passing   *)
(* len; this includes the empty sequence and sequences of length one.      *)
C6_RendererTotal ==
  /\ pc # "panicked"
  /\ i <= Len(seq)
  /\ \A j \in reads : InBounds(seq, j)
  /\ i > 0 => reads \subseteq {i - 2, i - 1, i}
  /\ pc # "done" => ENABLED Next
  /\ pc = "done" => i = Len(seq) /\ Len(chunks) = Len(seq)

\* A sequence of length one is rendered reading its only index.
C6_Witness ==
  /\ pc = "done"
  /\ Len(seq) = 1
  /\ reads = {0}
  /\ Len(chunks) = 1

\* The consonants the claim names, by the quality that reduces to each.
C8_Consonant(q) ==
  CASE q = "VoicedAlveolarNasal" -> "N"
    [] q = "VoicedBilabialNasal" -> "M"
    [] q = "VoicelessBilabialPlosive" -> "P"

\* ipa is a long palatalized N, M or P followed by a long vowel.
C8_LongPair ==
  /\ Len(ipa) = 2
  /\ ipa[1].kind = "Consonant"
  /\ ipa[1].phoneme # "VoicedPalatalApproximant"
  /\ ipa[1].is_long
  /\ ipa[1].is_palatalized
  /\ ipa[2].kind = "Vowel"
  /\ ipa[2].is_long

(* C8.  Reducer then renderer: a long palatalized consonant reducing to N, *)
(* M or P followed by a long vowel is written as the consonant's soft-sign *)
(* spelling, its bare hard glyph, the vowel's iotated glyph, the vowel's   *)
(* plain glyph.                                                            *)
C8_LongPalatalizedPipeline ==
  (pc = "done" /\ C8_LongPair) =>
    LET c == C8_Consonant(ipa[1].phoneme)
        v == vowels_lookup(ipa[2].phoneme)
    IN  out = <<HardGlyph(c), "soft", HardGlyph(c), IotatedGlyph(v), PlainGlyph(v)>>

\* test_mmaau without its last sound: long palatalized M, long ae.
C8_Witness ==
  /\ pc = "done"
  /\ C8_LongPair
  /\ ipa[1].phoneme = "VoicedBilabialNasal"
  /\ ipa[2].phoneme = "NearOpenFrontUrounded"
  /\ out = <<"m", "soft", "m", "ya", "a">>

(* C9.  A Separator is a boundary for both neighbours: the text of         *)
(* xs ++ [Separator] ++ ys is the text of xs, one space, the text of ys.   *)
C9_SeparatorBoundary ==
  pc = "done" =>
    \A k \in 1..Len(seq) :
      seq[k] = Probel =>
        out = Render(SubSeq(seq, 1, k - 1)) \o <<" ">>
                \o Render(SubSeq(seq, k + 1, Len(seq)))

\* test_na_nan: two words around one separator.
C9_Witness ==
  /\ pc = "done"
  /\ ipa = integration_tests_test_na_nan
  /\ seq[3] = Probel
  /\ out = <<"n", "ya", " ", "n", "ya", "n">>

(* C10.  Softness is written exactly once: for a palatalized Consonant     *)
(* other than W, either its own text ends with the soft sign or the next   *)
(* position holds a Vowel written with its iotated glyph, never both and   *)
(* never neither.                                                          *)
C10_SoftnessOnce ==
  pc = "done" =>
    \A n \in 1..Len(seq) :
      IsPalatalizedConsonantNotW(seq[n]) =>
        LET bySign  == chunks[n] # << >> /\ chunks[n][Len(chunks[n])] = "soft"
            byVowel == /\ n < Len(seq)
                       /\ seq[n + 1].kind = "Vowel"
                       /\ chunks[n + 1] = <<IotatedGlyph(seq[n + 1].phoneme)>>
        IN  bySign # byVowel

\* test_na, finished: the softness of N is carried by "ya" alone.
C10_Witness ==
  /\ pc = "done"
  /\ seq = <<Consonant("N", TRUE), Vowel("A")>>
  /\ chunks = << <<"n">>, <<"ya">> >>

====
